---- MODULE Spec2Model ----
(***************************************************************************)
(* A model of react-native-qa-logger: the QALogger event store             *)
(* (logger.ts), the fetch / XMLHttpRequest interceptors (network.ts) and   *)
(* the global error hook (errors.ts).                                      *)
(***************************************************************************)
EXTENDS Integers, Sequences, FiniteSets, TLC

\* ------------------------------------------------------------------ bounds
MaxRecords == 3       \* events pushed since the last clearLogs
MaxCap == 2           \* largest maxLogs the host configures
MaxTime == 1          \* last value of the millisecond clock
MaxInstalls == 2      \* wrappers each interceptor creates (closures are never reused)
MaxCalls == 2         \* fetch calls the host makes
StackLimit == 2       \* frames of a runaway recursion that unwind before the stack is exhausted
MaxBodyLength == 4    \* largest maxBodyLength the host configures

\* --------------------------------------------------------- program constants
DefaultMaxLogs == 1000

DefaultMaxLength == 10000      \* truncateBody's default maxLength

\* ------------------------------------------------------------ value domains
Listeners == {"L1", "L2"}                 \* subscriber callbacks
Rands == {0, 1}                           \* Math.random() suffixes of an id
OneRand == {0}                            \* the same, where the ids play no part
LogLevel == [INFO |-> "info", WARN |-> "warn", ERROR |-> "error", NETWORK |-> "network"]
Absent == <<>>                            \* an optional field that is undefined

\* function references: the host's own implementation, a wrapper closure
\* (gen: which install created it), or no function
Native == [kind |-> "native", gen |-> 0]
Undefined == [kind |-> "undefined", gen |-> 0]
Null == [kind |-> "null", gen |-> 0]
Wrapper(g) == [kind |-> "wrapper", gen |-> g]
Truthy(ref) == ref.kind \notin {"undefined", "null"}

VARIABLES
    logs,        \* QALogger.logs
    maxLogs,     \* QALogger.maxLogs
    enabled,     \* QALogger.enabled (__DEV__)
    listeners,   \* QALogger.listeners, a Set kept in insertion order
    now,         \* Date.now()
    notified,    \* per callback: times it was invoked by the last operation
    logCount,    \* per callback: the getLogCount() it read in the last operation (0: not invoked)
    raised,      \* the last operation threw to its caller
    history,     \* events pushed since the last clearLogs
    lastOp,      \* name of the last operation
    hostFetch,            \* global.fetch as the host provides it (Undefined: no fetch API)
    globalFetch,          \* global.fetch
    originalFetch,        \* network.ts originalFetch
    fetchGen,             \* fetch wrappers created so far
    calls,                \* the fetch calls made through a wrapper, in call order, each with
                          \* the outcome of the original call, the outcome its caller sees
                          \* and the entries the wrapper logged for it
    hostXHR,              \* the host has XMLHttpRequest
    xhrOpen,              \* XMLHttpRequest.prototype.open
    xhrSend,              \* XMLHttpRequest.prototype.send
    xhrSetRequestHeader,  \* XMLHttpRequest.prototype.setRequestHeader: the wrappers
                          \* stacked on the native method, newest first
    originalXHROpen,      \* network.ts originalXHROpen
    originalXHRSend,      \* network.ts originalXHRSend
    xhrGen,               \* XHR wrapper sets created so far
    xhrObject,            \* one XMLHttpRequest object: its __qaLogger objects and the listeners send added
    xhrCall,              \* the last open / setRequestHeader / send call on it: the arguments
                          \* supplied, those each call of the original received, what the
                          \* original did and what the caller got
    hasErrorUtils,        \* the host has global.ErrorUtils
    globalHandler,        \* the handler ErrorUtils.getGlobalHandler() returns
    originalErrorHandler, \* errors.ts originalErrorHandler
    isSetup,              \* errors.ts isSetup
    timers,               \* pending setTimeout callbacks of setupErrorHandlers
    hookGen,              \* handler closures created so far
    delivery,             \* what the last uncaught error did
    interceptors,         \* request/response interceptor pairs registered on the axios instance
    requestTimings,       \* network.ts requestTimings: the {id, startTime} entries of the Map
    axiosCalls,           \* the calls made through the instrumented axios instance, in call order
    headers,              \* filterSensitiveHeaders: the headers argument
    configSensitive,      \* config.sensitiveHeaders
    filtered,             \* filterSensitiveHeaders: the value returned
    body,                 \* truncateBody: the body argument
    maxBodyLength,        \* config.maxBodyLength ({}: undefined)
    truncated,            \* truncateBody: the value returned
    initHeaders,          \* init.headers of a fetch call, in the shape the caller chose
    requestHeaders,       \* the requestHeaders the wrapper stores for that call
    exchange,             \* one request and its response: the body sent, the response's
                          \* content-type, text and (XHR) responseType
    loggedBodies,         \* what the interceptor made of them: whether it logged the event, the
                          \* requestBody and responseBody of the event, what the caller can read
    consoleLogs,          \* DebugConsole: the `logs` state it renders
    buttonLogCount        \* DebugButton: the `logCount` state it renders

storeVars == <<logs, maxLogs, enabled, listeners, now, notified, logCount, raised, history, lastOp>>

fetchVars == <<hostFetch, globalFetch, originalFetch, fetchGen, calls>>

xhrVars == <<hostXHR, xhrOpen, xhrSend, xhrSetRequestHeader, originalXHROpen, originalXHRSend, xhrGen,
             xhrObject, xhrCall>>

axiosVars == <<interceptors, requestTimings, axiosCalls>>

sanitizeVars == <<headers, configSensitive, filtered, body, maxBodyLength, truncated,
                  initHeaders, requestHeaders, exchange, loggedBodies>>

viewVars == <<consoleLogs, buttonLogCount>>

\* everything outside the store and the error hook
netVars == <<fetchVars, xhrVars, axiosVars, sanitizeVars, viewVars>>

errVars == <<hasErrorUtils, globalHandler, originalErrorHandler, isSetup, timers, hookGen, delivery>>

vars == <<storeVars, netVars, errVars>>

\* ------------------------------------------------------------------ helpers
MinOf(S) == CHOOSE x \in S : \A y \in S : x <= y

LastN(s, n) == SubSeq(s, Len(s) - n + 1, Len(s))

Range(s) == {s[i] : i \in 1..Len(s)}

\* the frames of one call that log: one, or, when the call re-enters itself
\* without end, every frame that unwinds once the stack is exhausted
Frames(runaway) == IF runaway THEN 2..StackLimit ELSE {1}

\* ------------------------------------------------------------------ QALogger

\* generateId: `${Date.now()}-${random}`
generateId(r) == <<now, r>>

\* a LogEntry; method and duration are fields of a NetworkLogEntry only
LogEntry(r, level, message, statusCode, error) ==
    [id |-> generateId(r), timestamp |-> now, level |-> level, message |-> message,
     statusCode |-> statusCode, error |-> error, method |-> Absent, duration |-> Absent]

\* the NetworkLogEntry logger.network builds: id, timestamp, level, ...networkLog
NetworkLogEntry(r, message, method, statusCode, duration, error) ==
    [LogEntry(r, LogLevel.NETWORK, message, statusCode, error)
        EXCEPT !.method = <<method>>, !.duration = duration]

\* notifyListeners: listeners.forEach(listener => listener()); a callback of
\* `throwers` throws, which ends the forEach and propagates.
notifyListeners(throwers) ==
    LET bad == {i \in 1..Len(listeners) : listeners[i] \in throwers}
    IN  IF bad = {}
        THEN [called |-> Range(listeners), raised |-> FALSE]
        ELSE [called |-> {listeners[i] : i \in 1..MinOf(bad)}, raised |-> TRUE]

\* addLog with the notification ahead of the eviction
addLogNotifyFirst(ls, log, throwers) ==
    IF ~enabled
    THEN [logs |-> ls, pushed |-> <<>>, called |-> {}, seen |-> Len(ls), raised |-> FALSE]
    ELSE LET pushed == Append(ls, log)
             kept == IF Len(pushed) > maxLogs THEN Tail(pushed) ELSE pushed
             n == notifyListeners(throwers)
         IN  [logs |-> kept, pushed |-> <<log>>, called |-> n.called,
              seen |-> Len(pushed), raised |-> n.raised]

\* addLog with pop() in place of shift(): the newest entry goes
addLogEvictNewest(ls, log, throwers) ==
    IF ~enabled
    THEN [logs |-> ls, pushed |-> <<>>, called |-> {}, seen |-> Len(ls), raised |-> FALSE]
    ELSE LET pushed == Append(ls, log)
             kept == IF Len(pushed) > maxLogs THEN SubSeq(pushed, 1, Len(pushed) - 1) ELSE pushed
             n == notifyListeners(throwers)
         IN  [logs |-> kept, pushed |-> <<log>>, called |-> n.called,
              seen |-> Len(kept), raised |-> n.raised]

\* addLog without `if (!this.enabled) return`
addLogWhenDisabled(ls, log, throwers) ==
    LET pushed == Append(ls, log)
        kept == IF Len(pushed) > maxLogs THEN Tail(pushed) ELSE pushed
        n == notifyListeners(throwers)
    IN  [logs |-> kept, pushed |-> <<log>>, called |-> n.called,
         seen |-> Len(kept), raised |-> n.raised]

\* addLog: push, evict the oldest when over maxLogs, then notify.
\* `seen` is the count a notified callback reads.
addLog(ls, log, throwers) ==
    IF ~enabled
    THEN [logs |-> ls, pushed |-> <<>>, called |-> {}, seen |-> Len(ls), raised |-> FALSE]
    ELSE LET pushed == Append(ls, log)
             kept == IF Len(pushed) > maxLogs THEN Tail(pushed) ELSE pushed
             n == notifyListeners(throwers)
         IN  [logs |-> kept, pushed |-> <<log>>, called |-> n.called,
              seen |-> Len(kept), raised |-> n.raised]

\* the effect of one addLog on the store and on the callbacks
Stored(res, op) ==
    /\ logs' = res.logs
    /\ notified' = [l \in Listeners |-> IF l \in res.called THEN Len(res.pushed) ELSE 0]
    /\ logCount' = [l \in Listeners |-> IF l \in res.called THEN res.seen ELSE 0]
    /\ raised' = res.raised
    /\ history' = history \o res.pushed
    /\ lastOp' = op

\* an operation that touches neither the store nor its callbacks
Quiet(op, threw) ==
    /\ notified' = [l \in Listeners |-> 0]
    /\ logCount' = [l \in Listeners |-> 0]
    /\ raised' = threw
    /\ lastOp' = op
    /\ UNCHANGED <<logs, maxLogs, enabled, listeners, now, history>>

\* info / warn / error / network: early return when disabled, else addLog
record(op, level, message, statusCode, error, throwers) ==
    /\ Len(history) < MaxRecords
    /\ \E r \in Rands :
         Stored(addLog(logs, LogEntry(r, level, message, statusCode, error), throwers), op)
    /\ UNCHANGED <<maxLogs, enabled, listeners, now, netVars, errVars>>

info(message, throwers) == record("info", LogLevel.INFO, message, Absent, Absent, throwers)

warn(message, throwers) == record("warn", LogLevel.WARN, message, Absent, Absent, throwers)

error(message, throwers) == record("error", LogLevel.ERROR, message, Absent, Absent, throwers)

network(message, statusCode, err, throwers) ==
    record("network", LogLevel.NETWORK, message, statusCode, err, throwers)

\* getAllLogs / getLogCount
getAllLogs == logs

getLogCount == Len(logs)

\* getFilteredLogs with the 'errors' filter comparing against LogLevel.WARN
getFilteredLogsWarnAsError(filter) ==
    CASE filter = "all" -> getAllLogs
      [] filter = "network" -> SelectSeq(logs, LAMBDA log : log.level = LogLevel.NETWORK)
      [] filter = "errors" -> SelectSeq(logs, LAMBDA log : log.level = LogLevel.WARN)
      [] OTHER -> <<>>

\* getFilteredLogs
getFilteredLogs(filter) ==
    CASE filter = "all" -> getAllLogs
      [] filter = "network" -> SelectSeq(logs, LAMBDA log : log.level = LogLevel.NETWORK)
      [] filter = "errors" -> SelectSeq(logs, LAMBDA log : log.level = LogLevel.ERROR)
      [] OTHER -> <<>>

\* clearLogs: empties the store (also when disabled) and notifies
clearLogs(throwers) ==
    LET n == notifyListeners(throwers)
    IN  /\ logs' = <<>>
        /\ notified' = [l \in Listeners |-> IF l \in n.called THEN 1 ELSE 0]
        /\ logCount' = [l \in Listeners |-> 0]
        /\ raised' = n.raised
        /\ history' = <<>>
        /\ lastOp' = "clearLogs"
        /\ UNCHANGED <<maxLogs, enabled, listeners, now, netVars, errVars>>

\* subscribe: listeners.add(listener)
subscribe(l) ==
    /\ listeners' = IF l \in Range(listeners) THEN listeners ELSE Append(listeners, l)
    /\ notified' = [k \in Listeners |-> 0]
    /\ raised' = FALSE
    /\ lastOp' = "subscribe"
    /\ logCount' = [k \in Listeners |-> 0]
    /\ UNCHANGED <<logs, maxLogs, enabled, now, history, netVars, errVars>>

\* the function subscribe returns: listeners.delete(listener)
unsubscribe(l) ==
    /\ listeners' = SelectSeq(listeners, LAMBDA k : k # l)
    /\ notified' = [k \in Listeners |-> 0]
    /\ raised' = FALSE
    /\ lastOp' = "unsubscribe"
    /\ logCount' = [k \in Listeners |-> 0]
    /\ UNCHANGED <<logs, maxLogs, enabled, now, history, netVars, errVars>>

\* configure: maxLogs is replaced, nothing is evicted
configure(m) ==
    /\ maxLogs' = m
    /\ notified' = [k \in Listeners |-> 0]
    /\ raised' = FALSE
    /\ lastOp' = "configure"
    /\ logCount' = [k \in Listeners |-> 0]
    /\ UNCHANGED <<logs, enabled, listeners, now, history, netVars, errVars>>

\* the millisecond clock advances between operations
Tick ==
    /\ now < MaxTime
    /\ now' = now + 1
    /\ UNCHANGED <<logs, maxLogs, enabled, listeners, notified, logCount, raised, history, lastOp>>
    /\ UNCHANGED <<netVars, errVars>>


\* ----------------------------------- network.ts: what is stored of a request
DEFAULT_SENSITIVE_HEADERS ==
    <<"authorization", "cookie", "set-cookie", "x-api-key", "api-key", "access-token",
      "refresh-token">>

\* String.prototype.toLowerCase on the header names in use
toLowerCase(name) ==
    CASE name = "Authorization" -> "authorization"
      [] name = "X-Secret" -> "x-secret"
      [] name = "X-Trace" -> "x-trace"
      [] OTHER -> name

\* header values: strings and numbers; String(value)
StringValue(text) == [type |-> "string", s |-> text, n |-> 0]
NumberValue(num) == [type |-> "number", s |-> "", n |-> num]
String(value) == IF value.type = "number" THEN ToString(value.n) ELSE value.s

\* a [name, value] array, whose String() is its items joined by commas, and an
\* object that is not an array, whose String() is '[object Object]'
ArrayValue(name, value) == [type |-> "array", s |-> name \o "," \o String(value), n |-> 0]
ObjectValue == [type |-> "object", s |-> "[object Object]", n |-> 0]

\* no headers object at all (undefined), or a mapping from names to values
NoHeaders == [defined |-> FALSE, map |-> <<>>]
HeadersOf(m) == [defined |-> TRUE, map |-> m]

\* [...DEFAULT_SENSITIVE_HEADERS, ...(config.sensitiveHeaders || [])]
sensitiveHeaders(config) == DEFAULT_SENSITIVE_HEADERS \o config

\* filterSensitiveHeaders with sensitiveSet.has(key): the key is not lower-cased
filterSensitiveHeadersExactCase(hs, sensitive) ==
    IF ~hs.defined
    THEN <<>>
    ELSE LET sensitiveSet == {toLowerCase(sensitive[i]) : i \in 1..Len(sensitive)}
         IN  [key \in DOMAIN hs.map |->
                IF key \in sensitiveSet THEN "[REDACTED]" ELSE String(hs.map[key])]

\* filterSensitiveHeaders
filterSensitiveHeaders(hs, sensitive) ==
    IF ~hs.defined
    THEN <<>>
    ELSE LET sensitiveSet == {toLowerCase(sensitive[i]) : i \in 1..Len(sensitive)}
         IN  [key \in DOMAIN hs.map |->
                IF toLowerCase(key) \in sensitiveSet THEN "[REDACTED]" ELSE String(hs.map[key])]

\* Bodies. A string is its characters; a number, a boolean or null is the
\* characters of its literal; an object is its properties, name and value.
StringBody(cs) == [type |-> "string", chars |-> cs, props |-> <<>>]
LiteralBody(type, cs) == [type |-> type, chars |-> cs, props |-> <<>>]
ObjectBody(ps) == [type |-> "object", chars |-> <<>>, props |-> ps]
NotCalled == LiteralBody("unset", <<>>)      \* no value computed yet

\* !body
Falsy(b) ==
    \/ b.type = "null"
    \/ b.type = "string" /\ b.chars = <<>>
    \/ b.type = "number" /\ b.chars = <<"0">>
    \/ b.type = "boolean" /\ b.chars # <<"t", "r", "u", "e">>

\* JSON.stringify
RECURSIVE stringifyProps(_)
stringifyProps(ps) ==
    IF ps = <<>>
    THEN <<>>
    ELSE <<"\"", Head(ps)[1], "\"", ":", Head(ps)[2]>>
         \o (IF Tail(ps) = <<>> THEN <<>> ELSE <<",">> \o stringifyProps(Tail(ps)))

JSONstringify(b) ==
    CASE b.type = "string" -> <<"\"">> \o b.chars \o <<"\"">>
      [] b.type = "object" -> <<"{">> \o stringifyProps(b.props) \o <<"}">>
      [] OTHER -> b.chars

\* typeof body === 'string' ? body : JSON.stringify(body)
bodyStr(b) == IF b.type = "string" THEN b.chars ELSE JSONstringify(b)

\* `${bodyStr.substring(0, maxLength)}... [truncated]`
Truncation(text, maxLength) == StringBody(SubSeq(text, 1, maxLength) \o <<"... [truncated]">>)

\* the maxLength parameter: 10000 when the argument is undefined
maxLengthOf(arg) == IF arg = {} THEN DefaultMaxLength ELSE CHOOSE n \in arg : TRUE

\* truncateBody with >= in place of >
truncateBodyAtLimit(b, arg) ==
    IF Falsy(b)
    THEN b
    ELSE IF Len(bodyStr(b)) >= maxLengthOf(arg)
         THEN Truncation(bodyStr(b), maxLengthOf(arg))
         ELSE b

\* truncateBody
truncateBody(b, arg) ==
    IF Falsy(b)
    THEN b
    ELSE IF Len(bodyStr(b)) > maxLengthOf(arg)
         THEN Truncation(bodyStr(b), maxLengthOf(arg))
         ELSE b

\* one call of filterSensitiveHeaders / of truncateBody on the inputs at hand
applyFilterSensitiveHeaders ==
    /\ filtered' = filterSensitiveHeaders(headers, sensitiveHeaders(configSensitive))
    /\ Quiet("filterSensitiveHeaders", FALSE)
    /\ UNCHANGED <<headers, configSensitive, body, maxBodyLength, truncated, initHeaders, requestHeaders,
                   exchange, loggedBodies>>
    /\ UNCHANGED <<fetchVars, xhrVars, axiosVars, errVars, viewVars>>

applyTruncateBody ==
    /\ truncated' = truncateBody(body, maxBodyLength)
    /\ Quiet("truncateBody", FALSE)
    /\ UNCHANGED <<headers, configSensitive, filtered, body, maxBodyLength, initHeaders, requestHeaders,
                   exchange, loggedBodies>>
    /\ UNCHANGED <<fetchVars, xhrVars, axiosVars, errVars, viewVars>>

\* HeadersInit: no headers, a record of names to values, an array of
\* [name, value] pairs, or a Headers object
NoInitHeaders == [shape |-> "none", entries |-> <<>>]
InitHeadersOf(shape, entries) == [shape |-> shape, entries |-> entries]

\* the names of a HeadersInit in the order the caller wrote them
NameOrder == <<"Authorization", "x-secret", "X-Trace">>
namesOf(h) == SelectSeq(NameOrder, LAMBDA name : name \in DOMAIN h.entries)

\* what Object.keys(headers) and headers[key] find on each shape: the names of
\* a record; the indices of an array, each holding a [name, value] pair; the
\* one own property `map` of the Headers object of the fetch polyfill
ownProperties(h) ==
    CASE h.shape = "none" -> NoHeaders
      [] h.shape = "record" -> HeadersOf(h.entries)
      [] h.shape = "pairs" ->
            HeadersOf([index \in {ToString(i - 1) : i \in 1..Len(namesOf(h))} |->
                LET name == CHOOSE n \in DOMAIN h.entries :
                                \E i \in 1..Len(namesOf(h)) : namesOf(h)[i] = n /\ ToString(i - 1) = index
                IN  ArrayValue(name, h.entries[name])])
      [] h.shape = "Headers" -> HeadersOf([key \in {"map"} |-> ObjectValue])

\* the fetch wrapper: requestHeaders: filterSensitiveHeaders(init?.headers as any, sensitiveHeaders)
fetchRequestHeaders ==
    /\ requestHeaders' = filterSensitiveHeaders(ownProperties(initHeaders), sensitiveHeaders(configSensitive))
    /\ Quiet("requestHeaders", FALSE)
    /\ UNCHANGED <<headers, configSensitive, filtered, body, maxBodyLength, truncated, initHeaders,
                   exchange, loggedBodies>>
    /\ UNCHANGED <<fetchVars, xhrVars, axiosVars, errVars, viewVars>>

\* JSON.parse on the texts at hand: the value whose JSON text it is, or a SyntaxError (Absent)
JsonValues ==
    {ObjectBody(<<>>), ObjectBody(<<<<"a", "1">>>>), LiteralBody("number", <<"4", "2">>),
     LiteralBody("null", <<"n", "u", "l", "l">>)}

JSONparse(text) ==
    IF \E v \in JsonValues : JSONstringify(v) = text
    THEN <<CHOOSE v \in JsonValues : JSONstringify(v) = text>>
    ELSE Absent

\* contentType.includes('application/json')
isJson(contentType) == contentType \in {"application/json", "application/json; charset=utf-8"}

UnableToParse == StringBody(<<"[Unable to parse response body]">>)
NullBody == LiteralBody("null", <<"n", "u", "l", "l">>)

Exchange(b, contentType, responseText, responseType) ==
    [body |-> b, contentType |-> contentType, responseText |-> responseText,
     responseType |-> responseType]
NoExchange == Exchange(NullBody, "", <<>>, "")
NoLoggedBodies == [logged |-> FALSE, requestBody |-> NotCalled, responseBody |-> NotCalled,
                   readable |-> <<>>]

\* the fetch wrapper's handling of the bodies: a string init.body is parsed and kept
\* as it is when that throws; the response is cloned and the clone read with
\* json() or text() by content-type, anything thrown there giving the marker;
\* the caller gets the response itself, its body unread
fetchBodies ==
    /\ exchange.responseType = ""
    /\ LET requestBody ==
              IF Falsy(exchange.body) THEN NullBody
              ELSE IF exchange.body.type = "string"
                   THEN IF JSONparse(exchange.body.chars) # Absent
                        THEN JSONparse(exchange.body.chars)[1]
                        ELSE exchange.body
                   ELSE exchange.body
           clonedResponse == exchange.responseText
           responseBody ==
              IF isJson(exchange.contentType)
              THEN IF JSONparse(clonedResponse) # Absent
                   THEN JSONparse(clonedResponse)[1]
                   ELSE UnableToParse
              ELSE StringBody(clonedResponse)
       IN  loggedBodies' = [logged |-> TRUE,
                            requestBody |-> truncateBody(requestBody, maxBodyLength),
                            responseBody |-> truncateBody(responseBody, maxBodyLength),
                            readable |-> <<exchange.responseText>>]
    /\ Quiet("fetchBodies", FALSE)
    /\ UNCHANGED <<headers, configSensitive, filtered, body, maxBodyLength, truncated, initHeaders,
                   requestHeaders, exchange>>
    /\ UNCHANGED <<fetchVars, xhrVars, axiosVars, errVars, viewVars>>

\* this.responseText: an InvalidStateError (Absent) unless responseType is '' or 'text'
responseTextOf(x) == IF x.responseType \in {"", "text"} THEN <<x.responseText>> ELSE Absent

\* the send wrapper and its load listener: the body given to send is kept as it
\* is; the listener parses this.responseText by content-type and falls back to
\* this.responseText in the catch, which nothing guards
xhrBodies ==
    /\ LET responseText == responseTextOf(exchange)
       IN  loggedBodies' =
             IF responseText = Absent
             THEN [NoLoggedBodies EXCEPT !.readable = <<exchange.responseText>>]
             ELSE [logged |-> TRUE,
                   requestBody |-> truncateBody(exchange.body, maxBodyLength),
                   responseBody |->
                       truncateBody(IF isJson(exchange.contentType) /\ JSONparse(responseText[1]) # Absent
                                    THEN JSONparse(responseText[1])[1]
                                    ELSE StringBody(responseText[1]), maxBodyLength),
                   readable |-> <<exchange.responseText>>]
    /\ Quiet("xhrBodies", FALSE)
    /\ UNCHANGED <<headers, configSensitive, filtered, body, maxBodyLength, truncated, initHeaders,
                   requestHeaders, exchange>>
    /\ UNCHANGED <<fetchVars, xhrVars, axiosVars, errVars, viewVars>>

\* ----------------------------------------------------- network.ts: fetch
Methods == {"get", "POST"}
Url == "https://x/users"
Statuses == {200}
StatusText(status) == IF status = 200 THEN "200" ELSE "404"

\* String.prototype.toUpperCase on a method name
toUpperCase(m) == CASE m = "get" -> "GET" [] m = "post" -> "POST" [] OTHER -> m

\* what a caller of fetch gets
NoOutcome == [kind |-> "none", value |-> "", bodyUsed |-> FALSE]
Resolved(status) == [kind |-> "resolved", value |-> StatusText(status), bodyUsed |-> FALSE]
Rejected(err) == [kind |-> "rejected", value |-> err, bodyUsed |-> FALSE]
Outcomes == {Resolved(st) : st \in Statuses} \cup {Rejected("Network request failed")}

\* the entry logger.network builds for a response / for a failure
ResponseEntry(r, method, status, startTime) ==
    NetworkLogEntry(r, <<toUpperCase(method), StatusText(status), Url>>, toUpperCase(method),
                    <<status>>, <<now - startTime>>, Absent)

FailureEntry(r, method, err, startTime) ==
    NetworkLogEntry(r, <<toUpperCase(method), "ERROR", Url>>, toUpperCase(method),
                    Absent, <<now - startTime>>, <<err>>)

\* addLog for each entry of `entries` in turn, every callback of `throwers` throwing each time
RECURSIVE addLogs(_, _, _)
addLogs(ls, entries, throwers) ==
    IF entries = <<>>
    THEN [logs |-> ls, pushed |-> <<>>, called |-> {}, seen |-> Len(ls), raised |-> FALSE]
    ELSE LET first == addLog(ls, Head(entries), throwers)
             rest == addLogs(first.logs, Tail(entries), throwers)
         IN  [logs |-> rest.logs, pushed |-> first.pushed \o rest.pushed, called |-> first.called,
              seen |-> IF Tail(entries) = <<>> THEN first.seen ELSE rest.seen,
              raised |-> first.raised]

\* setupFetchLogger
setupFetchLogger ==
    /\ IF ~enabled \/ Truthy(originalFetch)
       THEN UNCHANGED fetchVars
       ELSE /\ fetchGen < MaxInstalls
            /\ originalFetch' = globalFetch
            /\ globalFetch' = Wrapper(fetchGen + 1)
            /\ fetchGen' = fetchGen + 1
            /\ UNCHANGED <<hostFetch, calls>>
    /\ Quiet("setupFetchLogger", FALSE)
    /\ UNCHANGED <<xhrVars, errVars, axiosVars, sanitizeVars, viewVars>>

\* restoreFetchLogger
restoreFetchLogger ==
    /\ IF Truthy(originalFetch)
       THEN /\ globalFetch' = originalFetch
            /\ originalFetch' = Null
            /\ UNCHANGED <<hostFetch, fetchGen, calls>>
       ELSE UNCHANGED fetchVars
    /\ Quiet("restoreFetchLogger", FALSE)
    /\ UNCHANGED <<xhrVars, errVars, axiosVars, sanitizeVars, viewVars>>

\* the calls whose outcome their caller has by now
settledSoFar == Cardinality({i \in 1..Len(calls) : calls[i].stage = "done"})

\* the wrapper `ref` (global.fetch, or a reference to a wrapper taken earlier),
\* up to `await originalFetch!(input, init)`: whichever wrapper runs, originalFetch
\* is the module's variable as it is at the call. With no function saved the call throws a TypeError inside the try; with a wrapper
\* saved (which itself forwards to originalFetch) the calls nest until the stack is
\* exhausted and every frame that unwinds logs a failure.
fetchCall(ref, method, throwers) ==
    /\ ref.kind = "wrapper" /\ ref.gen \in 1..fetchGen
    /\ Len(calls) < MaxCalls
    /\ LET call == [stage |-> "pending", startTime |-> now, method |-> method,
                    ref |-> ref, installed |-> ref = globalFetch,
                    orig |-> NoOutcome, seen |-> NoOutcome, logged |-> <<>>,
                    settled |-> 0, at |-> 0]
           threw == notifyListeners(throwers).raised
       IN  IF originalFetch = Native
           THEN /\ calls' = Append(calls, call)
                /\ Quiet("fetch", FALSE)
           ELSE \E frames \in Frames(originalFetch.kind = "wrapper"), r \in OneRand :
                  LET err == IF originalFetch.kind = "wrapper"
                             THEN "Maximum call stack size exceeded"
                             ELSE "originalFetch is not a function"
                      entries == [k \in 1..frames |-> FailureEntry(r, method, err, now)]
                  IN  /\ Len(history) + frames <= MaxRecords
                      /\ calls' = Append(calls, [call EXCEPT !.stage = "done",
                                    !.seen = Rejected(IF threw THEN "listener error" ELSE err),
                                    !.logged = addLogs(logs, entries, throwers).pushed,
                                    !.settled = settledSoFar + 1, !.at = Len(logs) + 1])
                      /\ Stored([addLogs(logs, entries, throwers) EXCEPT !.raised = FALSE], "fetch")
                      /\ UNCHANGED <<maxLogs, enabled, listeners, now>>
    /\ UNCHANGED <<hostFetch, globalFetch, originalFetch, fetchGen, xhrVars, errVars, axiosVars, sanitizeVars, viewVars>>

\* a wrapper that files the events by the start of their calls: the events of
\* call i go in front of those of the calls started after it
fetchSettleInCallOrder(i, outcome, throwers) ==
    /\ i \in 1..Len(calls)
    /\ calls[i].stage = "pending"
    /\ \E r1 \in OneRand, r2 \in OneRand :
         LET method == calls[i].method
             start == calls[i].startTime
             threw == notifyListeners(throwers).raised
             entries ==
                IF outcome.kind = "resolved"
                THEN <<ResponseEntry(r1, method, IF outcome.value = "200" THEN 200 ELSE 404, start)>>
                     \o (IF threw THEN <<FailureEntry(r2, method, "listener error", start)>> ELSE <<>>)
                ELSE <<FailureEntry(r1, method, outcome.value, start)>>
             later == {calls[j].at : j \in {j \in i + 1..Len(calls) : calls[j].stage = "done"}}
             p == IF later = {} THEN Len(logs) + 1 ELSE CHOOSE a \in later : \A b \in later : a <= b
             res == addLogs(SubSeq(logs, 1, p - 1), entries, throwers)
         IN  /\ Len(history) + Len(entries) <= MaxRecords
             /\ calls' = [calls EXCEPT ![i] = [@ EXCEPT !.stage = "done", !.orig = outcome,
                            !.seen = IF threw THEN Rejected("listener error") ELSE outcome,
                            !.logged = res.pushed,
                            !.settled = settledSoFar + 1, !.at = p]]
             /\ Stored([res EXCEPT !.logs = @ \o SubSeq(logs, p, Len(logs)), !.raised = FALSE],
                       "fetchSettle")
    /\ UNCHANGED <<maxLogs, enabled, listeners, now>>
    /\ UNCHANGED <<hostFetch, globalFetch, originalFetch, fetchGen, xhrVars, errVars, axiosVars, sanitizeVars, viewVars>>

\* the wrapper from the settling of the original call on: log, then hand the
\* outcome to the caller. logger.network sits inside the try, so what a callback
\* throws there lands in the catch, which logs a failure and throws.
fetchSettle(i, outcome, throwers) ==
    /\ i \in 1..Len(calls)
    /\ calls[i].stage = "pending"
    /\ \E r1 \in OneRand, r2 \in OneRand :
         LET method == calls[i].method
             start == calls[i].startTime
             threw == notifyListeners(throwers).raised
             entries ==
                IF outcome.kind = "resolved"
                THEN <<ResponseEntry(r1, method, IF outcome.value = "200" THEN 200 ELSE 404, start)>>
                     \o (IF threw THEN <<FailureEntry(r2, method, "listener error", start)>> ELSE <<>>)
                ELSE <<FailureEntry(r1, method, outcome.value, start)>>
         IN  /\ Len(history) + Len(entries) <= MaxRecords
             /\ calls' = [calls EXCEPT ![i] = [@ EXCEPT !.stage = "done", !.orig = outcome,
                            !.seen = IF threw THEN Rejected("listener error") ELSE outcome,
                            !.logged = addLogs(logs, entries, throwers).pushed,
                            !.settled = settledSoFar + 1, !.at = Len(logs) + 1]]
             /\ Stored([addLogs(logs, entries, throwers) EXCEPT !.raised = FALSE], "fetchSettle")
    /\ UNCHANGED <<maxLogs, enabled, listeners, now>>
    /\ UNCHANGED <<hostFetch, globalFetch, originalFetch, fetchGen, xhrVars, errVars, axiosVars, sanitizeVars, viewVars>>

\* ------------------------------------------------------- network.ts: XHR

\* setupXHRLogger: XMLHttpRequest.prototype of a host without XMLHttpRequest
\* is a ReferenceError, which nothing catches
setupXHRLogger ==
    IF ~enabled \/ Truthy(originalXHROpen)
    THEN /\ Quiet("setupXHRLogger", FALSE)
         /\ UNCHANGED <<fetchVars, xhrVars, errVars, axiosVars, sanitizeVars, viewVars>>
    ELSE IF ~hostXHR
    THEN /\ Quiet("setupXHRLogger", TRUE)
         /\ UNCHANGED <<fetchVars, xhrVars, errVars, axiosVars, sanitizeVars, viewVars>>
    ELSE /\ xhrGen < MaxInstalls
         /\ originalXHROpen' = xhrOpen
         /\ originalXHRSend' = xhrSend
         /\ xhrOpen' = Wrapper(xhrGen + 1)
         /\ xhrSetRequestHeader' = <<xhrGen + 1>> \o xhrSetRequestHeader
         /\ xhrSend' = Wrapper(xhrGen + 1)
         /\ xhrGen' = xhrGen + 1
         /\ Quiet("setupXHRLogger", FALSE)
         /\ UNCHANGED <<hostXHR, xhrObject, xhrCall, fetchVars, errVars, axiosVars, sanitizeVars, viewVars>>

\* restoreXHRLogger: open and send are put back, setRequestHeader is not
restoreXHRLogger ==
    /\ IF Truthy(originalXHROpen)
       THEN xhrOpen' = originalXHROpen /\ originalXHROpen' = Null
       ELSE UNCHANGED <<xhrOpen, originalXHROpen>>
    /\ IF Truthy(originalXHRSend)
       THEN xhrSend' = originalXHRSend /\ originalXHRSend' = Null
       ELSE UNCHANGED <<xhrSend, originalXHRSend>>
    /\ Quiet("restoreXHRLogger", FALSE)
    /\ UNCHANGED <<hostXHR, xhrSetRequestHeader, xhrGen, xhrObject, xhrCall, fetchVars, errVars, axiosVars, sanitizeVars, viewVars>>

\* argument values, as text
UrlObject == "URL(https://x/users)"

\* url.toString()
toString(url) == IF url = UrlObject THEN Url ELSE url

\* the i-th argument of a call, undefined past the last one supplied
Arg(args, i) == IF i <= Len(args) THEN args[i] ELSE "undefined"

\* a __qaLogger object as the open wrapper creates it
QaLogger(method, url) ==
    [method |-> method, url |-> url, startTime |-> 0, requestHeaders |-> <<>>,
     requestBody |-> "undefined"]

\* an XMLHttpRequest object: the __qaLogger objects created on it so far and
\* which of them is this.__qaLogger (0: none), the load and error listeners
\* the send wrapper added (each with the __qaLogger its closure holds),
\* whether a request is under way and which __qaLogger was this.__qaLogger
\* when it was sent, and what the last completion logged
NewXHR ==
    [qaLogger |-> 0, loggers |-> <<>>, loadListeners |-> <<>>, errorListeners |-> <<>>,
     inFlight |-> FALSE, sentWith |-> 0, logged |-> <<>>, loggedFor |-> <<>>]

NoXhrCall == [step |-> "none", supplied |-> <<>>, forwarded |-> <<>>, result |-> "", returned |-> ""]

\* a call of an XMLHttpRequest method leaves the store alone unless it throws
xhrCalled(step, supplied, forwarded, result) ==
    /\ xhrCall' = [step |-> step, supplied |-> supplied, forwarded |-> forwarded,
                   result |-> result, returned |-> result]
    /\ Quiet(step, result = "throws")
    /\ UNCHANGED <<hostXHR, xhrOpen, xhrSend, xhrSetRequestHeader, originalXHROpen, originalXHRSend, xhrGen>>
    /\ UNCHANGED <<fetchVars, errVars, axiosVars, sanitizeVars, viewVars>>

\* the open wrapper: this.__qaLogger = {method, url: url.toString(), startTime: 0,
\* requestHeaders: {}}; return originalXHROpen.call(this, method, url.toString(),
\* async, username, password), async being true when not given. The original
\* open ends a request that is under way without a load or an error event.
xhrOpenWrapper(args, result) ==
    /\ hostXHR /\ xhrOpen.kind = "wrapper" /\ originalXHROpen = Native
    /\ Len(xhrObject.loggers) < MaxCalls
    /\ xhrObject' = [xhrObject EXCEPT
                        !.loggers = Append(@, QaLogger(Arg(args, 1), toString(Arg(args, 2)))),
                        !.qaLogger = Len(xhrObject.loggers) + 1,
                        !.inFlight = IF result = "throws" THEN @ ELSE FALSE]
    /\ xhrCalled("open", args,
                 <<<<Arg(args, 1), toString(Arg(args, 2)),
                     IF Arg(args, 3) = "undefined" THEN "true" ELSE Arg(args, 3),
                     Arg(args, 4), Arg(args, 5)>>>>,
                 result)

\* the setRequestHeader wrappers, newest first, each noting the header when the
\* object has a __qaLogger and calling the function it replaced with (name, value)
xhrSetRequestHeaderWrapper(args, result) ==
    /\ hostXHR /\ xhrSetRequestHeader # <<>>
    /\ xhrObject' = IF xhrObject.qaLogger # 0
                    THEN [xhrObject EXCEPT !.loggers[xhrObject.qaLogger].requestHeaders =
                            IF Arg(args, 1) \in Range(@) THEN @ ELSE Append(@, Arg(args, 1))]
                    ELSE xhrObject
    /\ xhrCalled("setRequestHeader", args, <<<<Arg(args, 1), Arg(args, 2)>>>>, result)

\* the send wrapper: with a __qaLogger on the object it notes the start time and
\* the body and adds a load and an error listener, whose closures hold that
\* __qaLogger; return originalXHRSend.call(this, body)
xhrSendWrapper(args, result) ==
    /\ hostXHR /\ xhrSend.kind = "wrapper" /\ originalXHRSend = Native
    /\ Len(xhrObject.loadListeners) < MaxCalls
    /\ xhrObject' =
          LET sent == IF result = "throws" THEN xhrObject
                      ELSE [xhrObject EXCEPT !.inFlight = TRUE, !.sentWith = xhrObject.qaLogger]
          IN  IF xhrObject.qaLogger # 0
              THEN [sent EXCEPT !.loggers[xhrObject.qaLogger].startTime = now,
                                !.loggers[xhrObject.qaLogger].requestBody = Arg(args, 1),
                                !.loadListeners = Append(@, xhrObject.qaLogger),
                                !.errorListeners = Append(@, xhrObject.qaLogger)]
              ELSE sent
    /\ xhrCalled("send", args, <<<<Arg(args, 1)>>>>, result)

\* the entry a load listener / an error listener logs from the __qaLogger it holds
XhrLoadEntry(r, qaLogger, status) ==
    NetworkLogEntry(r, <<toUpperCase(qaLogger.method), StatusText(status), qaLogger.url>>,
                    toUpperCase(qaLogger.method), <<status>>, <<now - qaLogger.startTime>>, Absent)

XhrErrorEntry(r, qaLogger) ==
    NetworkLogEntry(r, <<toUpperCase(qaLogger.method), "ERROR", qaLogger.url>>,
                    toUpperCase(qaLogger.method), Absent, <<now - qaLogger.startTime>>,
                    <<"Network request failed">>)

\* the request under way completes: the host fires load (status given) or
\* error (status Absent) on the object and every listener added for that
\* event runs, in the order they were added
xhrCompletes(status, throwers) ==
    /\ hostXHR /\ xhrObject.inFlight
    /\ \E r \in OneRand :
         LET fired == IF status # Absent THEN xhrObject.loadListeners ELSE xhrObject.errorListeners
             entries == [k \in 1..Len(fired) |->
                            IF status # Absent
                            THEN XhrLoadEntry(r, xhrObject.loggers[fired[k]], status[1])
                            ELSE XhrErrorEntry(r, xhrObject.loggers[fired[k]])]
             res == addLogs(logs, entries, throwers)
         IN  /\ Len(history) + Len(entries) <= MaxRecords
             /\ xhrObject' = [xhrObject EXCEPT !.inFlight = FALSE, !.logged = res.pushed,
                                                !.loggedFor = IF enabled THEN fired ELSE <<>>]
             /\ Stored([res EXCEPT !.raised = FALSE], IF status # Absent THEN "xhrLoad" ELSE "xhrError")
    /\ UNCHANGED <<maxLogs, enabled, listeners, now>>
    /\ UNCHANGED <<hostXHR, xhrOpen, xhrSend, xhrSetRequestHeader, originalXHROpen, originalXHRSend,
                   xhrGen, xhrCall>>
    /\ UNCHANGED <<fetchVars, errVars, axiosVars, sanitizeVars, viewVars>>

\* --------------------------------- network.ts: axios, both loggers, manual

\* setupNetworkLogger: one request and one response interceptor more on the
\* instance, every call (nothing remembers an earlier call)
setupNetworkLogger ==
    /\ IF ~enabled
       THEN UNCHANGED interceptors
       ELSE /\ interceptors < MaxInstalls
            /\ interceptors' = interceptors + 1
    /\ Quiet("setupNetworkLogger", FALSE)
    /\ UNCHANGED <<requestTimings, axiosCalls, fetchVars, xhrVars, sanitizeVars, errVars, viewVars>>

\* generateRequestId: `${config.method}-${config.url}-${Date.now()}`
generateRequestId(method) == <<method, Url, now>>

\* Map.prototype.get / set / delete on requestTimings
get(timings, id) ==
    IF \E e \in timings : e.id = id
    THEN <<(CHOOSE e \in timings : e.id = id).startTime>>
    ELSE Absent

set(timings, id, startTime) ==
    {e \in timings : e.id # id} \cup {[id |-> id, startTime |-> startTime]}

delete(timings, id) == {e \in timings : e.id # id}

\* what reaches the response interceptors of a call
Fulfilled(status) == [kind |-> "fulfilled", config |-> TRUE, status |-> <<status>>, message |-> Absent]
AxiosErrorOf(config, message) == [kind |-> "rejected", config |-> config, status |-> Absent, message |-> <<message>>]
AxiosOutcomes ==
    {Fulfilled(st) : st \in Statuses}
        \cup {AxiosErrorOf(TRUE, "Network Error"), AxiosErrorOf(FALSE, "canceled")}

\* the request interceptors of a call, one per setupNetworkLogger call, each
\* storing Date.now() under the generated id and putting the id in the config
\* as __requestId (the last one stays there)
axiosRequest(method) ==
    /\ interceptors >= 1
    /\ Len(axiosCalls) < MaxCalls
    /\ LET requestId == generateRequestId(method)
       IN  /\ requestTimings' = set(requestTimings, requestId, now)
           /\ axiosCalls' = Append(axiosCalls,
                 [stage |-> "pending", requestId |-> requestId, method |-> method, startTime |-> now,
                  chain |-> interceptors, endTime |-> 0, outcome |-> Fulfilled(200), logged |-> <<>>])
    /\ Quiet("axiosRequest", FALSE)
    /\ UNCHANGED <<interceptors, fetchVars, xhrVars, sanitizeVars, errVars, viewVars>>

\* the response interceptors of one call, n of them still to run: each one
\* that gets a response, or an error that has a config, looks the start time
\* up (Date.now() is positive, so a start time found is truthy), deletes the
\* entry, logs and hands the response or error on; what a callback throws out
\* of logger.network is an error without a config for the interceptors after it
RECURSIVE responseInterceptors(_, _, _, _, _, _)
responseInterceptors(n, timings, call, outcome, r, threw) ==
    IF n = 0
    THEN [timings |-> timings, entries |-> <<>>]
    ELSE IF ~outcome.config
    THEN responseInterceptors(n - 1, timings, call, outcome, r, threw)
    ELSE LET startTime == get(timings, call.requestId)
             duration == IF startTime # Absent THEN <<now - startTime[1]>> ELSE Absent
             entry == NetworkLogEntry(r,
                        <<toUpperCase(call.method),
                          IF outcome.status # Absent THEN StatusText(outcome.status[1]) ELSE "ERROR",
                          Url>>,
                        toUpperCase(call.method), outcome.status, duration, outcome.message)
             rest == responseInterceptors(n - 1, delete(timings, call.requestId), call,
                        IF threw THEN AxiosErrorOf(FALSE, "listener error") ELSE outcome, r, threw)
         IN  [timings |-> rest.timings, entries |-> <<entry>> \o rest.entries]

\* a call of the instrumented instance settles: its response interceptors run
axiosSettle(i, outcome, throwers) ==
    /\ i \in 1..Len(axiosCalls)
    /\ axiosCalls[i].stage = "pending"
    /\ \E r \in OneRand :
         LET threw == notifyListeners(throwers).raised
             res == responseInterceptors(axiosCalls[i].chain, requestTimings, axiosCalls[i],
                                         outcome, r, threw)
         IN  /\ Len(history) + Len(res.entries) <= MaxRecords
             /\ requestTimings' = res.timings
             /\ axiosCalls' = [axiosCalls EXCEPT ![i] =
                    [@ EXCEPT !.stage = "done", !.endTime = now, !.outcome = outcome,
                              !.logged = addLogs(logs, res.entries, throwers).pushed]]
             /\ Stored([addLogs(logs, res.entries, throwers) EXCEPT !.raised = FALSE], "axiosSettle")
    /\ UNCHANGED <<maxLogs, enabled, listeners, now>>
    /\ UNCHANGED <<interceptors, fetchVars, xhrVars, sanitizeVars, errVars, viewVars>>

\* setupAllNetworkLoggers: setupFetchLogger(config); setupXHRLogger(config)
setupAllNetworkLoggers ==
    /\ IF ~enabled \/ Truthy(originalFetch)
       THEN UNCHANGED fetchVars
       ELSE /\ fetchGen < MaxInstalls
            /\ originalFetch' = globalFetch
            /\ globalFetch' = Wrapper(fetchGen + 1)
            /\ fetchGen' = fetchGen + 1
            /\ UNCHANGED <<hostFetch, calls>>
    /\ IF ~enabled \/ Truthy(originalXHROpen)
       THEN /\ Quiet("setupAllNetworkLoggers", FALSE)
            /\ UNCHANGED xhrVars
       ELSE IF ~hostXHR
       THEN /\ Quiet("setupAllNetworkLoggers", TRUE)
            /\ UNCHANGED xhrVars
       ELSE /\ xhrGen < MaxInstalls
            /\ originalXHROpen' = xhrOpen
            /\ originalXHRSend' = xhrSend
            /\ xhrOpen' = Wrapper(xhrGen + 1)
            /\ xhrSetRequestHeader' = <<xhrGen + 1>> \o xhrSetRequestHeader
            /\ xhrSend' = Wrapper(xhrGen + 1)
            /\ xhrGen' = xhrGen + 1
            /\ Quiet("setupAllNetworkLoggers", FALSE)
            /\ UNCHANGED <<hostXHR, xhrObject, xhrCall>>
    /\ UNCHANGED <<axiosVars, sanitizeVars, errVars, viewVars>>

\* logNetworkRequest: message `${method.toUpperCase()} ${statusCode || 'PENDING'} ${url}`,
\* then ...params: method, statusCode, duration and error as the caller gave them
logNetworkRequest(method, statusCode, err, throwers) ==
    /\ Len(history) < MaxRecords
    /\ \E r \in Rands :
         LET message == <<toUpperCase(method),
                          IF statusCode = Absent THEN "PENDING" ELSE StatusText(statusCode[1]), Url>>
         IN  Stored(addLog(logs, NetworkLogEntry(r, message, method, statusCode, Absent, err), throwers),
                    "logNetworkRequest")
    /\ UNCHANGED <<maxLogs, enabled, listeners, now, netVars, errVars>>

\* -------------------------------------------------------------- errors.ts
Hook(g) == [kind |-> "hook", gen |-> g]

IGNORE_PATTERNS == {"RCTEventEmitter", "registerCallableModule", "Module has not been registered",
                    "[QALogger]", "RCTDeviceEventEmitter", "Callable JavaScript modules",
                    "receiveEvent"}

\* A message is the sequence of its words; message.includes(pattern) is the
\* pattern being one of them.
includes(message, pattern) == \E i \in 1..Len(message) : message[i] = pattern

\* shouldIgnoreError: an empty message is ignored too
shouldIgnoreError(message) ==
    IF message = <<>> THEN TRUE ELSE \E pattern \in IGNORE_PATTERNS : includes(message, pattern)

\* extractErrorMessage
extractErrorMessage(err) ==
    CASE err.type = "Error" -> err.message
      [] err.type = "string" -> err.message
      [] err.type = "object" -> IF err.message # <<>> THEN err.message ELSE <<"[object Object]">>
      [] OTHER -> <<"undefined">>

\* the values a host throws
ThrownValues ==
    {[type |-> "Error", message |-> <<"boom">>],
     [type |-> "string", message |-> <<"boom">>],
     [type |-> "Error", message |-> <<>>],
     [type |-> "Error", message |-> <<"Invariant", "RCTEventEmitter">>],
     [type |-> "object", message |-> <<"receiveEvent">>]}

NoDelivery == [ran |-> "none", args |-> <<>>, first |-> Null, firstArgs |-> <<>>,
               order |-> <<>>, hostCalls |-> 0, prevRaised |-> FALSE, propagated |-> FALSE,
               pushed |-> 0]

\* The handler setGlobalHandler installs, run on (err, isFatal): what it calls
\* and what it logs. prevThrows: the host's handler throws when it is called.
\* originalErrorHandler is read when the handler runs; when it is itself one of
\* these handlers the calls nest until the stack is exhausted (a RangeError).
\* The call of the previous handler sits in a try whose catch is empty, and so
\* does the logging.
hookHandlerUnguarded(err, isFatal, prevThrows, frames) ==
    LET message == extractErrorMessage(err)
        callsPrev == Truthy(originalErrorHandler)
        prevRaised == callsPrev /\ (prevThrows \/ originalErrorHandler.kind = "hook")
        logsIt == ~prevRaised /\ ~shouldIgnoreError(message)
    IN  [ran |-> "hook",
         args |-> <<err, isFatal>>,
         first |-> IF callsPrev THEN originalErrorHandler ELSE Null,
         firstArgs |-> IF callsPrev THEN <<err, isFatal>> ELSE <<>>,
         order |-> (IF callsPrev THEN <<"previous">> ELSE <<>>)
                   \o (IF logsIt THEN <<"log">> ELSE <<>>),
         hostCalls |-> IF originalErrorHandler = Native THEN 1 ELSE 0,
         prevRaised |-> prevRaised,
         propagated |-> prevRaised,
         pushed |-> IF logsIt THEN frames ELSE 0,
         message |-> IF isFatal THEN <<"[FATAL]">> \o message ELSE message]

hookHandler(err, isFatal, prevThrows, frames) ==
    LET message == extractErrorMessage(err)
        callsPrev == Truthy(originalErrorHandler)
        prevRaised == callsPrev /\ (prevThrows \/ originalErrorHandler.kind = "hook")
        logsIt == ~shouldIgnoreError(message)
    IN  [ran |-> "hook",
         args |-> <<err, isFatal>>,
         first |-> IF callsPrev THEN originalErrorHandler ELSE Null,
         firstArgs |-> IF callsPrev THEN <<err, isFatal>> ELSE <<>>,
         order |-> (IF callsPrev THEN <<"previous">> ELSE <<>>)
                   \o (IF logsIt THEN <<"log">> ELSE <<>>),
         hostCalls |-> IF originalErrorHandler = Native THEN 1 ELSE 0,
         prevRaised |-> prevRaised,
         propagated |-> FALSE,
         pushed |-> IF logsIt THEN frames ELSE 0,
         message |-> IF isFatal THEN <<"[FATAL]">> \o message ELSE message]

\* setupErrorHandlers without the logger.isEnabled() test
setupErrorHandlersWhenDisabled ==
    /\ IF isSetup
       THEN UNCHANGED <<isSetup, timers>>
       ELSE /\ hookGen + timers < MaxInstalls
            /\ isSetup' = TRUE
            /\ timers' = timers + 1
    /\ delivery' = NoDelivery
    /\ Quiet("setupErrorHandlers", FALSE)
    /\ UNCHANGED <<hasErrorUtils, globalHandler, originalErrorHandler, hookGen, netVars>>

\* setupErrorHandlers: the replacement itself waits for a 100 ms timer
setupErrorHandlers ==
    /\ IF ~enabled \/ isSetup
       THEN UNCHANGED <<isSetup, timers>>
       ELSE /\ hookGen + timers < MaxInstalls
            /\ isSetup' = TRUE
            /\ timers' = timers + 1
    /\ delivery' = NoDelivery
    /\ Quiet("setupErrorHandlers", FALSE)
    /\ UNCHANGED <<hasErrorUtils, globalHandler, originalErrorHandler, hookGen, netVars>>

\* the setTimeout callback without the `if (ErrorUtils)` test
timerFiresWithoutErrorUtils ==
    /\ timers > 0
    /\ timers' = timers - 1
    /\ originalErrorHandler' = globalHandler
    /\ globalHandler' = Hook(hookGen + 1)
    /\ hookGen' = hookGen + 1
    /\ delivery' = NoDelivery
    /\ Quiet("timer", FALSE)
    /\ UNCHANGED <<hasErrorUtils, isSetup, netVars>>

\* the setTimeout callback of setupErrorHandlers
timerFires ==
    /\ timers > 0
    /\ timers' = timers - 1
    /\ IF hasErrorUtils
       THEN /\ originalErrorHandler' = globalHandler
            /\ globalHandler' = Hook(hookGen + 1)
            /\ hookGen' = hookGen + 1
       ELSE UNCHANGED <<originalErrorHandler, globalHandler, hookGen>>
    /\ delivery' = NoDelivery
    /\ Quiet("timer", FALSE)
    /\ UNCHANGED <<hasErrorUtils, isSetup, netVars>>

\* restoreErrorHandlers without `originalErrorHandler = null`
restoreErrorHandlersKeepsSaved ==
    /\ IF Truthy(originalErrorHandler) /\ hasErrorUtils
       THEN /\ globalHandler' = originalErrorHandler
            /\ UNCHANGED originalErrorHandler
       ELSE UNCHANGED <<globalHandler, originalErrorHandler>>
    /\ isSetup' = FALSE
    /\ delivery' = NoDelivery
    /\ Quiet("restoreErrorHandlers", FALSE)
    /\ UNCHANGED <<hasErrorUtils, timers, hookGen, netVars>>

\* restoreErrorHandlers
restoreErrorHandlers ==
    /\ IF Truthy(originalErrorHandler) /\ hasErrorUtils
       THEN /\ globalHandler' = originalErrorHandler
            /\ originalErrorHandler' = Null
       ELSE UNCHANGED <<globalHandler, originalErrorHandler>>
    /\ isSetup' = FALSE
    /\ delivery' = NoDelivery
    /\ Quiet("restoreErrorHandlers", FALSE)
    /\ UNCHANGED <<hasErrorUtils, timers, hookGen, netVars>>

\* the runtime reports an uncaught error to the global handler
uncaughtError(err, isFatal, prevThrows, throwers) ==
    /\ hasErrorUtils
    /\ IF globalHandler.kind = "hook"
       THEN \E frames \in Frames(originalErrorHandler.kind = "hook"), r \in OneRand :
              LET d == hookHandler(err, isFatal, prevThrows, frames)
                  entries == [k \in 1..d.pushed |->
                                LogEntry(r, LogLevel.ERROR, d.message, Absent, Absent)]
              IN  /\ Len(history) + d.pushed <= MaxRecords
                  /\ delivery' = [x \in DOMAIN NoDelivery |-> d[x]]
                  /\ Stored([addLogs(logs, entries, throwers) EXCEPT !.raised = d.propagated],
                            "uncaughtError")
                  /\ UNCHANGED <<maxLogs, enabled, listeners, now>>
       ELSE /\ delivery' = [NoDelivery EXCEPT !.ran = "host", !.args = <<err, isFatal>>,
                              !.hostCalls = 1, !.propagated = prevThrows]
            /\ Quiet("uncaughtError", prevThrows)
    /\ UNCHANGED <<hasErrorUtils, globalHandler, originalErrorHandler, isSetup, timers, hookGen, netVars>>

\* ------------------------------------------------- the viewer's reads
\* Array.prototype.reverse
reverse(s) == [i \in 1..Len(s) |-> s[Len(s) + 1 - i]]

\* getFilteredLogs returning this.logs itself for 'all'
getFilteredLogsSharingStore(filter) ==
    [items |-> getFilteredLogs(filter), shared |-> filter = "all"]

\* the array getFilteredLogs returns: [...this.logs] or the result of
\* filter(), a new array either way (shared: it is this.logs itself)
getFilteredLogsArray(filter) ==
    [items |-> getFilteredLogs(filter), shared |-> FALSE]

\* DebugConsole updateLogs: list with the active filter, narrow it down to the
\* entries matching the search query if there is one (filter() gives another
\* array), reverse that array in place and keep it as the rendered list
updateLogs(activeFilter, searchQuery) ==
    LET filteredLogs == getFilteredLogsArray(activeFilter)
        searchFiltered == SelectSeq(filteredLogs.items, LAMBDA log : includes(log.message, searchQuery[1]))
    IN  /\ consoleLogs' = IF searchQuery # Absent THEN reverse(searchFiltered)
                                                  ELSE reverse(filteredLogs.items)
        /\ logs' = IF searchQuery = Absent /\ filteredLogs.shared THEN reverse(logs) ELSE logs
        /\ notified' = [l \in Listeners |-> 0]
        /\ logCount' = [l \in Listeners |-> 0]
        /\ raised' = FALSE
        /\ lastOp' = "updateLogs"
        /\ UNCHANGED <<maxLogs, enabled, listeners, now, history, buttonLogCount>>
        /\ UNCHANGED <<fetchVars, xhrVars, axiosVars, sanitizeVars, errVars>>

\* DebugButton: setLogCount(logger.getLogCount())
readLogCount ==
    /\ buttonLogCount' = getLogCount
    /\ Quiet("getLogCount", FALSE)
    /\ UNCHANGED <<consoleLogs, fetchVars, xhrVars, axiosVars, sanitizeVars, errVars>>

\* ---------------------------------------------------------------- the store
Messages == {<<"A">>, <<"B">>, <<"C">>}

InitStore ==
    /\ logs = <<>>
    /\ maxLogs = DefaultMaxLogs
    /\ enabled \in BOOLEAN
    /\ listeners = <<>>
    /\ now = 0
    /\ notified = [l \in Listeners |-> 0]
    /\ logCount = [l \in Listeners |-> 0]
    /\ raised = FALSE
    /\ history = <<>>
    /\ lastOp = "init"
    /\ consoleLogs = <<>>
    /\ buttonLogCount = 0

\* fetches, xhrs, utils: the hosts considered (with or without each API)
InitNet(fetches, xhrs) ==
    /\ hostFetch \in fetches
    /\ globalFetch = hostFetch
    /\ originalFetch = Null
    /\ fetchGen = 0
    /\ calls = <<>>
    /\ hostXHR \in xhrs
    /\ xhrOpen = Native
    /\ xhrSend = Native
    /\ xhrSetRequestHeader = <<>>
    /\ originalXHROpen = Null
    /\ originalXHRSend = Null
    /\ xhrGen = 0
    /\ xhrObject = NewXHR
    /\ xhrCall = NoXhrCall
    /\ interceptors = 0
    /\ requestTimings = {}
    /\ axiosCalls = <<>>

\* the inputs of filterSensitiveHeaders and truncateBody
HeaderNames == {"Authorization", "x-secret", "X-Trace"}

HeaderValues == {StringValue("abc"), NumberValue(42)}

HeaderInputs ==
    {NoHeaders} \cup {HeadersOf(m) : m \in UNION {[names -> HeaderValues] : names \in SUBSET HeaderNames}}

ConfigInputs == {<<>>, <<"X-Secret">>}

Bodies ==
    {LiteralBody("null", <<"n", "u", "l", "l">>),
     LiteralBody("boolean", <<"f", "a", "l", "s", "e">>),
     LiteralBody("number", <<"0">>),
     LiteralBody("number", <<"4", "2">>),
     StringBody(<<>>),
     StringBody(<<"a", "b", "c">>),
     StringBody(<<"a", "b", "c", "d", "e", "f">>),
     ObjectBody(<<>>),
     ObjectBody(<<<<"a", "1">>>>)}

MaxLengthInputs == {{}} \cup {{n} : n \in 0..MaxBodyLength}

InitHeaderInputs ==
    {NoInitHeaders} \cup
    {InitHeadersOf(shape, m) : shape \in {"record", "pairs", "Headers"},
                               m \in UNION {[names -> HeaderValues] : names \in SUBSET HeaderNames}}

ResponseTexts ==
    {<<>>, <<"{", "}">>, <<"{", "\"", "a", "\"", ":", "1", "}">>, <<"{", "a">>, <<"<", "p", ">">>}

Exchanges ==
    {Exchange(b, ct, text, rt) :
        b \in {NullBody, StringBody(<<"{", "}">>), StringBody(<<"a", "=", "1">>), ObjectBody(<<>>)},
        ct \in {"application/json", "application/json; charset=utf-8", "text/html"},
        text \in ResponseTexts, rt \in {"", "blob"}}

InitSanitize(hs, cs, bs, ms, is) ==
    /\ exchange = NoExchange
    /\ loggedBodies = NoLoggedBodies
    /\ headers \in hs
    /\ configSensitive \in cs
    /\ filtered = <<>>
    /\ body \in bs
    /\ maxBodyLength \in ms
    /\ truncated = NotCalled
    /\ initHeaders \in is
    /\ requestHeaders = <<>>

\* no call of the two functions is looked at
InitNoInputs == InitSanitize({NoHeaders}, {<<>>}, {StringBody(<<>>)}, {{}}, {NoInitHeaders})

InitErr(utils) ==
    /\ hasErrorUtils \in utils
    /\ globalHandler = IF hasErrorUtils THEN Native ELSE Undefined
    /\ originalErrorHandler = Null
    /\ isSetup = FALSE
    /\ timers = 0
    /\ hookGen = 0
    /\ delivery = NoDelivery

Init ==
    /\ InitStore /\ InitNet({Native, Undefined}, BOOLEAN) /\ InitErr(BOOLEAN)
    /\ InitSanitize(HeaderInputs, ConfigInputs, Bodies, MaxLengthInputs, {NoInitHeaders})

\* the fetch wrapper given headers in every shape
InitHeaderShapes ==
    /\ InitStore /\ InitNet({Native}, {TRUE}) /\ InitErr({TRUE})
    /\ InitSanitize({NoHeaders}, ConfigInputs, {StringBody(<<>>)}, {{}}, InitHeaderInputs)

\* the interceptors given bodies and responses of every kind
InitBodies ==
    /\ InitStore /\ InitNet({Native}, {TRUE}) /\ InitErr({TRUE})
    /\ headers = NoHeaders /\ configSensitive = <<>> /\ filtered = <<>>
    /\ body = StringBody(<<>>) /\ maxBodyLength = {} /\ truncated = NotCalled
    /\ initHeaders = NoInitHeaders /\ requestHeaders = <<>>
    /\ exchange \in Exchanges /\ loggedBodies = NoLoggedBodies

\* a host that has every API the library patches
InitFullHost == InitStore /\ InitNet({Native}, {TRUE}) /\ InitErr({TRUE}) /\ InitNoInputs

\* hosts with or without fetch / XMLHttpRequest
InitNetHosts == InitStore /\ InitNet({Native, Undefined}, BOOLEAN) /\ InitErr({TRUE}) /\ InitNoInputs

\* hosts with or without ErrorUtils
InitErrHosts == InitStore /\ InitNet({Native}, {TRUE}) /\ InitErr(BOOLEAN) /\ InitNoInputs

\* every host, no input
InitAllHosts == InitStore /\ InitNet({Native, Undefined}, BOOLEAN) /\ InitErr(BOOLEAN) /\ InitNoInputs

\* the two functions on every input
InitInputs ==
    /\ InitStore /\ InitNet({Native}, {TRUE}) /\ InitErr({TRUE})
    /\ InitSanitize(HeaderInputs, ConfigInputs, Bodies, MaxLengthInputs, {NoInitHeaders})

Info == \E m \in Messages, t \in SUBSET Range(listeners) : info(m, t)

Warn == \E t \in SUBSET Range(listeners) : warn(<<"W">>, t)

Error == \E t \in SUBSET Range(listeners) : error(<<"E">>, t)

Network == \E t \in SUBSET Range(listeners) : network(<<"GET", "200", "u">>, <<200>>, Absent, t)

ClearLogs == \E t \in SUBSET Range(listeners) : clearLogs(t)

Subscribe == \E l \in Listeners : subscribe(l)

Unsubscribe == \E l \in Range(listeners) : unsubscribe(l)

\* an unsubscribe function called when its callback is not registered (any
\* more): listeners.delete finds nothing
UnsubscribeAgain == \E l \in Listeners \ Range(listeners) : unsubscribe(l)

Configure == \E m \in 0..MaxCap : configure(m)

\* the host configures the store once, before it records anything
ConfigureAtStartup == lastOp = "init" /\ Configure

LogFilters == {"all", "network", "errors", "other"}

UpdateLogs == \E f \in LogFilters, q \in {Absent, <<"E">>} : updateLogs(f, q)

AxiosRequest == \E m \in {"get"} : axiosRequest(m)

AxiosSettle == \E i \in 1..MaxCalls, o \in AxiosOutcomes, t \in SUBSET Range(listeners) : axiosSettle(i, o, t)

\* a response that was received, a request that failed
LogNetworkRequest ==
    \E p \in {<<<<200>>, Absent>>, <<Absent, <<"Network request failed">>>>},
       t \in SUBSET Range(listeners) :
        logNetworkRequest("get", p[1], p[2], t)

FetchCall ==
    \E m \in Methods, t \in (IF originalFetch = Native THEN {{}} ELSE SUBSET Range(listeners)) :
        fetchCall(globalFetch, m, t)

\* a call through a reference to the wrapper that is no longer global.fetch
HeldFetchCall ==
    \E g \in 1..MaxInstalls, m \in {"get"},
       t \in (IF originalFetch = Native THEN {{}} ELSE SUBSET Range(listeners)) :
        /\ Wrapper(g) # globalFetch
        /\ fetchCall(Wrapper(g), m, t)

FetchSettle == \E i \in 1..MaxCalls, o \in Outcomes, t \in SUBSET Range(listeners) : fetchSettle(i, o, t)

\* what the original does with a call: it returns (undefined) or it throws
XhrResults == {"undefined", "throws"}

OpenArgs ==
    {<<"GET", Url>>, <<"post", Url>>, <<"GET", UrlObject>>, <<"GET", Url, "false">>,
     <<"GET", Url, "true", "user", "secret">>}

XhrOpen == \E args \in OpenArgs, res \in XhrResults : xhrOpenWrapper(args, res)

XhrSetRequestHeader ==
    \E args \in {<<"Accept", "text/plain">>}, res \in XhrResults :
        xhrSetRequestHeaderWrapper(args, res)

\* (the host's send throws when the object's request is already under way)
XhrSend ==
    \E args \in {<<>>, <<"body">>}, res \in XhrResults :
        /\ xhrObject.inFlight => res = "throws"
        /\ xhrSendWrapper(args, res)

XhrCompletes == \E st \in {Absent, <<200>>}, t \in SUBSET Range(listeners) : xhrCompletes(st, t)

\* the host's handler can only throw where it is called, a callback only where
\* something is logged
UncaughtError ==
    \E e \in ThrownValues, f \in BOOLEAN :
      \E p \in (IF Native \in {globalHandler, originalErrorHandler} THEN BOOLEAN ELSE {FALSE}),
         t \in (IF globalHandler.kind = "hook" /\ ~shouldIgnoreError(extractErrorMessage(e))
                THEN SUBSET Range(listeners) ELSE {{}}) :
        uncaughtError(e, f, p, t)

NextStore == Info \/ Warn \/ Error \/ Network \/ ClearLogs \/ Subscribe \/ Unsubscribe

\* the store under a capacity fixed at startup
NextFixedCap == NextStore \/ ConfigureAtStartup

SpecFixedCap == InitFullHost /\ [][NextFixedCap]_vars

\* the fetch interceptor of network.ts over the store
NextFetch ==
    \/ setupFetchLogger \/ restoreFetchLogger \/ FetchCall \/ HeldFetchCall \/ FetchSettle
    \/ Subscribe

SpecFetch == InitNetHosts /\ [][NextFetch]_vars

\* calls through the installed wrapper, started and completed in any order
NextFetchCalls == setupFetchLogger \/ FetchCall \/ FetchSettle \/ Subscribe

SpecFetchCalls == InitFullHost /\ [][NextFetchCalls]_vars

\* the XMLHttpRequest interceptor of network.ts over the store
NextXHR == setupXHRLogger \/ restoreXHRLogger \/ Subscribe \/ Unsubscribe \/ Info

SpecXHR == InitNetHosts /\ [][NextXHR]_vars

\* calls made on an XMLHttpRequest object while the interceptor is installed or not
NextXHRCalls ==
    \/ setupXHRLogger \/ restoreXHRLogger
    \/ XhrOpen \/ XhrSetRequestHeader \/ XhrSend \/ XhrCompletes

SpecXHRCalls == InitNetHosts /\ [][NextXHRCalls]_vars

\* the error hook of errors.ts over the store
NextErr ==
    \/ setupErrorHandlers \/ timerFires \/ restoreErrorHandlers \/ UncaughtError
    \/ Subscribe

SpecErr == InitErrHosts /\ [][NextErr]_vars

\* the axios interceptors of network.ts over the store, the clock running
NextAxios == setupNetworkLogger \/ AxiosRequest \/ AxiosSettle \/ Subscribe \/ Tick

SpecAxios == InitFullHost /\ [][NextAxios]_vars

\* callbacks subscribed, subscribed again and unsubscribed while events are recorded
NextSubscribe == Info \/ ClearLogs \/ Subscribe \/ Unsubscribe \/ UnsubscribeAgain

SpecSubscribe == InitFullHost /\ [][NextSubscribe]_vars

\* the viewer reading the store while events are recorded
NextView == Error \/ Network \/ Subscribe \/ UpdateLogs \/ readLogCount

SpecView == InitFullHost /\ [][NextView]_vars

\* the store reconfigured while it runs, the clock running
NextLive == Info \/ Error \/ ClearLogs \/ Subscribe \/ Configure \/ Tick

SpecLive == InitFullHost /\ [][NextLive]_vars

\* every install operation, on every host, with the store enabled or not
NextSetup ==
    \/ setupNetworkLogger \/ setupFetchLogger \/ setupXHRLogger \/ setupAllNetworkLoggers
    \/ setupErrorHandlers \/ timerFires \/ LogNetworkRequest

SpecSetup == InitAllHosts /\ [][NextSetup]_vars

\* filterSensitiveHeaders and truncateBody on every input
NextSanitize == applyFilterSensitiveHeaders \/ applyTruncateBody

SpecSanitize == InitInputs /\ [][NextSanitize]_vars

\* the request headers the fetch wrapper stores, for every shape of init.headers
NextHeaderShapes == fetchRequestHeaders

SpecHeaderShapes == InitHeaderShapes /\ [][NextHeaderShapes]_vars

\* the bodies the fetch wrapper and the XHR load listener log, for every exchange
NextBodies == fetchBodies \/ xhrBodies

SpecBodies == InitBodies /\ [][NextBodies]_vars

\* everything together
Next == NextStore \/ NextSubscribe \/ NextView \/ Configure \/ Tick \/ NextFetch \/ NextFetchCalls \/ NextXHR \/ NextXHRCalls \/ NextAxios \/ NextErr \/ NextSetup \/ NextSanitize \/ NextBodies \/ NextHeaderShapes

Spec == Init /\ [][Next]_vars

\* ====================================================================
\* Claims
\* ====================================================================
RecordOps == {"info", "warn", "error", "network"}

\* C1: under a capacity configured at startup, the store never holds more
\* than maxLogs events after any sequence of info/warn/error/network calls,
\* and no callback reads a count above maxLogs while it is being notified
\* (the eviction comes before the notification).
C1_CountWithinCapacity ==
    /\ getLogCount <= maxLogs
    /\ \A l \in Listeners : logCount[l] <= maxLogs

\* an enabled store filled past its capacity, a callback notified of the evicting record
C1_Witness ==
    /\ enabled /\ lastOp \in RecordOps
    /\ maxLogs >= 1 /\ Len(history) > maxLogs /\ getLogCount = maxLogs
    /\ \E l \in Listeners : notified[l] = 1 /\ logCount[l] = maxLogs

\* C2: after n events recorded into a store of capacity c, getAllLogs() is
\* exactly the last min(n, c) recorded events, oldest first.
C2_ListIsLastRecorded ==
    getAllLogs = LastN(history, IF Len(history) < maxLogs THEN Len(history) ELSE maxLogs)

\* maxLogs = 2 and the Info events A, B, C recorded in this order: the list is [B, C]
C2_Witness ==
    /\ maxLogs = 2 /\ Len(history) = 3
    /\ \A i \in 1..3 : history[i].level = LogLevel.INFO
    /\ <<history[1].message, history[2].message, history[3].message>> = <<<<"A">>, <<"B">>, <<"C">>>>
    /\ getAllLogs = <<history[2], history[3]>>

\* C3: a callback that throws while it is notified keeps no other subscriber
\* from being notified for that record/clear and does not make the record/clear
\* throw to its caller.
C3_ThrowingCallbackIsolated ==
    (lastOp = "clearLogs" \/ (lastOp \in RecordOps /\ enabled))
        => /\ ~raised
           /\ \A l \in Range(listeners) : notified[l] = 1

\* C4: every call made through the fetch wrapper hands its caller the outcome
\* of the original fetch: the same response, body unconsumed, or the same error.
C4_CallerSeesOriginalOutcome ==
    \A i \in 1..Len(calls) :
        (calls[i].stage = "done" /\ calls[i].orig.kind # "none") => calls[i].seen = calls[i].orig

\* C5: setupFetchLogger while installed adds no second wrapper layer and saves
\* no second original, and after restoreFetchLogger global.fetch is the
\* reference the host had before the first install.
C5_FetchInstallOnceRestoreVerbatim ==
    /\ originalFetch.kind # "wrapper"
    /\ lastOp = "restoreFetchLogger" => globalFetch = hostFetch

\* C6: after restoreXHRLogger, open, setRequestHeader and send are the
\* pre-install references again, and install/restore cycles never stack wrappers.
C6_XHRRestoredToPreInstall ==
    /\ lastOp = "restoreXHRLogger"
         => xhrOpen = Native /\ xhrSend = Native /\ xhrSetRequestHeader = <<>>
    /\ Len(xhrSetRequestHeader) <= 1

\* C7: over every interleaving of setupErrorHandlers, restoreErrorHandlers and
\* the timer, the hook's handler is the global handler only while the hook is
\* installed (isSetup), setup while installed changes nothing, and restore
\* while uninstalled changes nothing.
C7_HookStateMachine ==
    [][/\ globalHandler'.kind = "hook" => isSetup'
       /\ (lastOp' = "setupErrorHandlers" /\ isSetup)
            => UNCHANGED <<globalHandler, originalErrorHandler, isSetup, timers>>
       /\ (lastOp' = "restoreErrorHandlers" /\ ~isSetup)
            => UNCHANGED <<globalHandler, originalErrorHandler, isSetup, timers>>]_vars

\* C8: restoreErrorHandlers with a previous handler saved makes that handler
\* the global handler and clears the saved reference; isSetup is cleared
\* whether or not a handler was saved.
C8_RestoreReinstatesPrevious ==
    [][lastOp' = "restoreErrorHandlers"
         => /\ Truthy(originalErrorHandler)
                 => globalHandler' = originalErrorHandler /\ originalErrorHandler' = Null
            /\ isSetup' = FALSE]_vars

\* the hook was installed over the host's handler and has been restored
C8_Witness ==
    /\ lastOp = "restoreErrorHandlers" /\ hookGen >= 1
    /\ globalHandler = Native /\ originalErrorHandler = Null /\ ~isSetup

\* C9: whenever the installed handler runs, it calls the saved previous handler
\* first, with the arguments it was given; what that handler throws is
\* swallowed: nothing propagates out of the handler and the Error event of a
\* message that is not ignored is still recorded.
C9_PreviousFirstAndSwallowed ==
    (lastOp = "uncaughtError" /\ delivery.ran = "hook")
        => /\ Truthy(originalErrorHandler)
                => /\ delivery.first = originalErrorHandler
                   /\ delivery.firstArgs = delivery.args
                   /\ Head(delivery.order) = "previous"
           /\ ~delivery.propagated /\ ~raised
           /\ ~shouldIgnoreError(extractErrorMessage(delivery.args[1]))
                => /\ delivery.pushed >= 1
                   /\ enabled => /\ history # <<>>
                                 /\ history[Len(history)].level = LogLevel.ERROR

\* the host's handler threw, and the handler still logged the error
C9_Witness ==
    /\ lastOp = "uncaughtError" /\ delivery.ran = "hook"
    /\ delivery.first = Native /\ delivery.prevRaised
    /\ delivery.pushed = 1 /\ ~raised
    /\ enabled /\ history # <<>> /\ history[Len(history)].level = LogLevel.ERROR

\* C10: with the hook installed (and the store enabled), an uncaught failure
\* whose message contains a denylist pattern records nothing, and one with
\* another message (stated here for messages with text: shouldIgnoreError drops
\* the empty message as well) records exactly one Error event with that message, prefixed with [FATAL]
\* exactly when the invocation is fatal.
C10_DenylistedDroppedOthersOnce ==
    (lastOp = "uncaughtError" /\ delivery.ran = "hook" /\ isSetup /\ enabled)
        => LET err == delivery.args[1]
               isFatal == delivery.args[2]
               message == extractErrorMessage(err)
           IN  IF \E pattern \in IGNORE_PATTERNS : includes(message, pattern)
               THEN delivery.pushed = 0
               ELSE message # <<>>
                      => /\ delivery.pushed = 1
                         /\ history[Len(history)].level = LogLevel.ERROR
                         /\ history[Len(history)].message
                              = IF isFatal THEN <<"[FATAL]">> \o message ELSE message

\* C11: filterSensitiveHeaders stores every header under its own key: with
\* '[REDACTED]' when its name equals, ignoring case, a default or a configured
\* sensitive name, with String(value) otherwise.
SameIgnoringCase(a, b) == toLowerCase(a) = toLowerCase(b)

IsSensitive(name) ==
    \E i \in 1..Len(sensitiveHeaders(configSensitive)) :
        SameIgnoringCase(name, sensitiveHeaders(configSensitive)[i])

C11_HeadersRedacted ==
    (lastOp = "filterSensitiveHeaders" /\ headers.defined)
        => /\ DOMAIN filtered = DOMAIN headers.map
           /\ \A name \in DOMAIN headers.map :
                filtered[name] = IF IsSensitive(name) THEN "[REDACTED]"
                                 ELSE String(headers.map[name])

\* 'Authorization' (a default name in another case) and 'x-secret' (configured
\* as 'X-Secret') are redacted, the number under 'X-Trace' is stored as '42'
C11_Witness ==
    /\ lastOp = "filterSensitiveHeaders" /\ headers.defined
    /\ configSensitive = <<"X-Secret">>
    /\ DOMAIN headers.map = HeaderNames
    /\ headers.map["X-Trace"] = NumberValue(42)
    /\ filtered["Authorization"] = "[REDACTED]"
    /\ filtered["x-secret"] = "[REDACTED]"
    /\ filtered["X-Trace"] = "42"

\* C12 as stated: for every body and maximum length m, a body whose serialized
\* text is longer than m is stored as the first m characters and the marker,
\* any other body is stored as the input value itself.
C12_TruncatedOrUnchanged ==
    lastOp = "truncateBody"
        => truncated = IF Len(bodyStr(body)) > maxLengthOf(maxBodyLength)
                       THEN Truncation(bodyStr(body), maxLengthOf(maxBodyLength))
                       ELSE body

\* C12 amended: the same for every truthy body; a falsy body (null, false, 0,
\* '') is stored as the input value itself whatever m is.
C12_TruthyTruncatedOrUnchanged ==
    lastOp = "truncateBody"
        => truncated = IF ~Falsy(body) /\ Len(bodyStr(body)) > maxLengthOf(maxBodyLength)
                       THEN Truncation(bodyStr(body), maxLengthOf(maxBodyLength))
                       ELSE body

\* the object {a: 1}, serialized {"a":1}, stored under maxBodyLength 4 as {"a"... [truncated]
C12_Witness ==
    /\ lastOp = "truncateBody"
    /\ body = ObjectBody(<<<<"a", "1">>>>) /\ maxBodyLength = {4}
    /\ truncated = StringBody(<<"{", "\"", "a", "\"", "... [truncated]">>)

\* C13: configure({maxLogs: m}) takes effect at once: the oldest events are
\* evicted until the count is at most m, and the count stays at most m after.
C13_ConfigureEvicts == getLogCount <= maxLogs

\* C14: the ids of successively recorded events are pairwise distinct and
\* strictly increasing in insertion order, however close in time the calls are.
IdLess(a, b) == a[1] < b[1] \/ (a[1] = b[1] /\ a[2] < b[2])

C14_IdsStrictlyIncreasing ==
    \A i, j \in 1..Len(history) : i < j => IdLess(history[i].id, history[j].id)

\* C15: getFilteredLogs('network') is exactly the Network events of
\* getAllLogs() and getFilteredLogs('errors') exactly its Error events, each in
\* the order they have in getAllLogs().
PositionsOf(level) == {i \in 1..Len(getAllLogs) : getAllLogs[i].level = level}

NthPosition(level, n) ==
    CHOOSE i \in PositionsOf(level) : Cardinality({j \in PositionsOf(level) : j <= i}) = n

IsSubsequenceOfLevel(list, level) ==
    /\ Len(list) = Cardinality(PositionsOf(level))
    /\ \A n \in 1..Len(list) : list[n] = getAllLogs[NthPosition(level, n)]

C15_FiltersAreSubsequences ==
    /\ IsSubsequenceOfLevel(getFilteredLogs("network"), LogLevel.NETWORK)
    /\ IsSubsequenceOfLevel(getFilteredLogs("errors"), LogLevel.ERROR)

\* Network, Error, Network events with different ids, and a Warn before them evicted or not
C15_Witness ==
    /\ Len(getAllLogs) = 3
    /\ getAllLogs[1].level = LogLevel.NETWORK /\ getAllLogs[2].level = LogLevel.ERROR
    /\ getAllLogs[3].level = LogLevel.NETWORK /\ getAllLogs[1].id # getAllLogs[3].id
    /\ getFilteredLogs("network") = <<getAllLogs[1], getAllLogs[3]>>
    /\ getFilteredLogs("errors") = <<getAllLogs[2]>>

\* C16: after clearLogs() the count is 0 and the list is empty, every
\* clearLogs() call (on an empty store too) invokes each subscribed callback
\* exactly once, and a second clearLogs() leaves the store as the first did.
C16_ClearEmptiesNotifiesOnce ==
    [][lastOp' = "clearLogs"
         => /\ getLogCount' = 0 /\ getAllLogs' = <<>>
            /\ \A l \in Range(listeners) : notified'[l] = 1
            /\ lastOp = "clearLogs" => logs' = logs /\ maxLogs' = maxLogs /\ listeners' = listeners]_vars

\* C17: once a callback is unsubscribed no later record or clear invokes it,
\* while every callback still subscribed is invoked on each later record and clear.
C17_UnsubscribedSilentOthersNotified ==
    (lastOp = "clearLogs" \/ (lastOp \in RecordOps /\ enabled))
        => /\ \A l \in Listeners \ Range(listeners) : notified[l] = 0
           /\ \A l \in Range(listeners) : notified[l] >= 1

\* C18: with the store enabled, every info/warn/error/network call invokes
\* every subscribed callback exactly once, after the mutation: the callback
\* finds the new event as the newest element of the list (for maxLogs >= 1).
C18_NotifiedOnceAfterMutation ==
    (lastOp \in RecordOps /\ enabled)
        => \A l \in Range(listeners) :
             /\ notified[l] = 1
             /\ maxLogs >= 1
                  => /\ logCount[l] = getLogCount
                     /\ getAllLogs # <<>>
                     /\ getAllLogs[Len(getAllLogs)] = history[Len(history)]

\* C19: with the store disabled every info/warn/error/network call is a
\* no-op: the contents and the count stay as they were, no callback is invoked.
C19_DisabledRecordIsNoOp ==
    [][(~enabled /\ lastOp' \in RecordOps)
         => /\ UNCHANGED <<logs, history, maxLogs, listeners>>
            /\ getLogCount' = getLogCount
            /\ \A l \in Listeners : notified'[l] = 0
            /\ ~raised']_vars

\* a record call on a disabled store with a subscriber: nothing stored, nobody invoked
C19_Witness ==
    /\ ~enabled /\ lastOp \in RecordOps
    /\ listeners # <<>> /\ getAllLogs = <<>>
    /\ \A l \in Listeners : notified[l] = 0

\* C20: with the store disabled, setupNetworkLogger, setupFetchLogger,
\* setupXHRLogger, setupAllNetworkLoggers, setupErrorHandlers and
\* logNetworkRequest change nothing: global.fetch, the XMLHttpRequest
\* prototype, the interceptors of the axios instance, the global error handler
\* and the store stay as they were, no timer is scheduled, nothing is raised.
InstallOps ==
    {"setupNetworkLogger", "setupFetchLogger", "setupXHRLogger", "setupAllNetworkLoggers",
     "setupErrorHandlers", "logNetworkRequest"}

C20_DisabledInstallIsNoOp ==
    [][(~enabled /\ lastOp' \in InstallOps)
         => /\ UNCHANGED <<globalFetch, originalFetch, fetchGen>>
            /\ UNCHANGED <<xhrOpen, xhrSend, xhrSetRequestHeader, originalXHROpen, originalXHRSend, xhrGen>>
            /\ UNCHANGED <<interceptors, globalHandler, originalErrorHandler, isSetup, timers, hookGen>>
            /\ UNCHANGED <<logs, history, maxLogs, listeners>>
            /\ \A l \in Listeners : notified'[l] = 0
            /\ ~raised']_vars

\* setupErrorHandlers on a disabled store: not set up, no timer pending
C20_Witness ==
    /\ ~enabled /\ lastOp = "setupErrorHandlers"
    /\ ~isSetup /\ timers = 0 /\ globalHandler.kind # "hook"

\* C22: on a host without global fetch or without XMLHttpRequest,
\* setupFetchLogger, setupXHRLogger and setupAllNetworkLoggers raise nothing
\* and leave the host as it was: nothing is saved, no wrapper is installed.
C22_MissingApiSkipped ==
    /\ hostFetch = Undefined
         => globalFetch = hostFetch /\ originalFetch = Null /\ fetchGen = 0
    /\ ~hostXHR
         => /\ lastOp \in {"setupXHRLogger", "setupAllNetworkLoggers"} => ~raised
            /\ originalXHROpen = Null /\ originalXHRSend = Null /\ xhrGen = 0

\* C23: a setupErrorHandlers call made while the hook is the global handler
\* or while a deferred replacement is pending schedules no further
\* replacement, and a timer never overwrites a saved previous handler.
C23_SecondSetupIsNoOp ==
    [][/\ (lastOp' = "setupErrorHandlers" /\ (globalHandler.kind = "hook" \/ timers > 0))
            => timers' = timers /\ originalErrorHandler' = originalErrorHandler
       /\ (lastOp' = "timer" /\ Truthy(originalErrorHandler))
            => originalErrorHandler' = originalErrorHandler]_vars

\* C24 as stated: on a host without ErrorUtils, setupErrorHandlers and
\* restoreErrorHandlers raise nothing, record nothing, and leave isSetup false
\* and no handler saved.
C24_NoFacilityStaysUninstalled ==
    ~hasErrorUtils
        => /\ ~raised /\ logs = <<>> /\ history = <<>>
           /\ ~isSetup
           /\ originalErrorHandler = Null

\* C24: on a host without ErrorUtils, setupErrorHandlers, its timer and
\* restoreErrorHandlers raise nothing, record nothing, install no handler and
\* save none; setupErrorHandlers on an enabled store still sets isSetup,
\* restoreErrorHandlers clears it.
C24_NoFacilityNothingInstalled ==
    ~hasErrorUtils
        => /\ ~raised /\ logs = <<>> /\ history = <<>>
           /\ globalHandler = Undefined /\ hookGen = 0
           /\ originalErrorHandler = Null
           /\ lastOp = "restoreErrorHandlers" => ~isSetup
           /\ (lastOp = "setupErrorHandlers" /\ enabled) => isSetup

C24_Witness ==
    /\ ~hasErrorUtils /\ enabled
    /\ lastOp = "timer" /\ timers = 0 /\ isSetup
    /\ globalHandler = Undefined /\ originalErrorHandler = Null

\* C29: every uncaught error reaches the host's own handler exactly once,
\* whatever setupErrorHandlers / restoreErrorHandlers calls and timer firings
\* came before, and the saved previous handler is never a hook handler.
C29_HostHandlerExactlyOnce ==
    /\ originalErrorHandler.kind # "hook"
    /\ lastOp = "uncaughtError" => delivery.hostCalls = 1

\* C30: every fetch call made through the wrapper whose original call has
\* settled added exactly one Network event: with the status code and no
\* error when the original resolved, with the failure description and no
\* status code when it rejected.
C30_OneEventPerFetch ==
    \A i \in 1..Len(calls) :
        calls[i].orig.kind # "none"
            => /\ Len(calls[i].logged) = 1
               /\ calls[i].logged[1].level = LogLevel.NETWORK
               /\ calls[i].orig.kind = "resolved"
                    => /\ calls[i].logged[1].statusCode # Absent
                       /\ StatusText(calls[i].logged[1].statusCode[1]) = calls[i].orig.value
                       /\ calls[i].logged[1].error = Absent
               /\ calls[i].orig.kind = "rejected"
                    => /\ calls[i].logged[1].statusCode = Absent
                       /\ calls[i].logged[1].error = <<calls[i].orig.value>>

\* C25: every Network event in the store has the message
\* <uppercase method> <status code, or ERROR when no response was received> <url>
\* and an uppercase method field.
C25_NetworkMessageFormat ==
    \A i \in 1..Len(logs) :
        logs[i].level = LogLevel.NETWORK
            => /\ logs[i].method # Absent
               /\ logs[i].method[1] = toUpperCase(logs[i].method[1])
               /\ logs[i].message =
                    <<toUpperCase(logs[i].method[1]),
                      IF logs[i].statusCode # Absent THEN StatusText(logs[i].statusCode[1]) ELSE "ERROR",
                      Url>>

\* C26: listing with any filter, as the viewer does it (list, then reverse the
\* returned array in place), and reading the count leave the store's list, its
\* order, its capacity and its subscribers as they were and invoke no
\* callback; the viewer gets the listed entries newest first.
C26_ListIsSnapshot ==
    [][lastOp' \in {"updateLogs", "getLogCount"}
         => /\ logs' = logs /\ history' = history /\ maxLogs' = maxLogs
            /\ listeners' = listeners /\ enabled' = enabled
            /\ \A l \in Listeners : notified'[l] = 0
            /\ ~raised'
            /\ lastOp' = "getLogCount" => buttonLogCount' = Len(logs)
            /\ lastOp' = "updateLogs"
                 => \E f \in LogFilters :
                      \/ consoleLogs' = reverse(getFilteredLogs(f))
                      \/ consoleLogs' = reverse(SelectSeq(getFilteredLogs(f),
                                                 LAMBDA log : includes(log.message, "E")))]_vars

C26_Witness ==
    /\ lastOp = "updateLogs" /\ listeners # <<>>
    /\ Len(logs) = 2 /\ logs[1] # logs[2]
    /\ consoleLogs = <<logs[2], logs[1]>>

\* C21: every call of open, setRequestHeader or send made through a wrapper
\* reaches the original implementation once, with exactly the arguments the
\* caller supplied, and the caller gets what the original returned or threw.
C21_XHRStepsForwardVerbatim ==
    xhrCall.step # "none"
        => /\ xhrCall.forwarded = <<xhrCall.supplied>>
           /\ xhrCall.returned = xhrCall.result

\* C27: requestTimings never holds more entries than there are axios calls
\* in flight, and it is empty once every call that was started has settled,
\* through a response or through an error.
C27_NoCorrelationLeak ==
    LET inFlight == {i \in 1..Len(axiosCalls) : axiosCalls[i].stage = "pending"}
    IN  /\ Cardinality(requestTimings) <= Cardinality(inFlight)
        /\ inFlight = {} => requestTimings = {}

\* C28: every event the axios interceptors record for a call carries the
\* duration from that call's own start to its completion.
C28_DurationIsOwnElapsedTime ==
    \A i \in 1..Len(axiosCalls) :
        \A k \in 1..Len(axiosCalls[i].logged) :
            axiosCalls[i].logged[k].duration = <<axiosCalls[i].endTime - axiosCalls[i].startTime>>

\* C37: a callback subscribed more than once is registered once: every
\* registered callback is invoked exactly once by each record or clear, an
\* unsubscribe function removes its callback altogether and leaves the other
\* subscribers in place, also when it is called again.
C37_SubscribedOnce ==
    [][/\ \A i, j \in 1..Len(listeners') : listeners'[i] = listeners'[j] => i = j
       /\ (lastOp' \in RecordOps /\ enabled) \/ lastOp' = "clearLogs"
            => \A l \in Range(listeners) : notified'[l] = 1
       /\ lastOp' = "subscribe"
            => /\ Range(listeners) \subseteq Range(listeners')
               /\ Cardinality(Range(listeners') \ Range(listeners)) <= 1
       /\ lastOp' = "unsubscribe"
            => /\ Range(listeners') \subseteq Range(listeners)
               /\ Cardinality(Range(listeners) \ Range(listeners')) <= 1
               /\ \A l \in Range(listeners') : notified'[l] = 0]_vars

\* the init.headers that differ from h only in the values of sensitive headers
SensitiveVariants(h) ==
    {InitHeadersOf(h.shape, m) : m \in
        {e \in [DOMAIN h.entries -> HeaderValues] :
            \A name \in DOMAIN h.entries : ~IsSensitive(name) => e[name] = h.entries[name]}}

\* C31: whatever the shape of init.headers (record, array of pairs, Headers
\* object), the request headers stored for a fetch call are the same for every
\* value a sensitive header may have.
C31_SensitiveValueNeverStored ==
    lastOp = "requestHeaders"
        => \A other \in SensitiveVariants(initHeaders) :
             filterSensitiveHeaders(ownProperties(other), sensitiveHeaders(configSensitive))
                = requestHeaders

\* C33: a completion of a request sent through the send wrapper logs at most
\* one Network event, also on an object opened and sent again, and that event
\* is built from the __qaLogger of the open/send pair that completed.
C33_OneEventPerCompletion ==
    lastOp \in {"xhrLoad", "xhrError"}
        => /\ Len(xhrObject.logged) <= 1
           /\ \A k \in 1..Len(xhrObject.logged) :
                /\ xhrObject.loggedFor[k] = xhrObject.sentWith
                /\ xhrObject.logged[k].method
                     = <<toUpperCase(xhrObject.loggers[xhrObject.sentWith].method)>>

\* C35: a call through a reference to the fetch wrapper that was taken while
\* the interceptor was installed and is made when that wrapper is no longer
\* global.fetch still reaches the host's fetch and hands its caller the
\* outcome of that call.
C35_HeldWrapperStillForwards ==
    \A i \in 1..Len(calls) :
        (hostFetch = Native /\ ~calls[i].installed /\ calls[i].stage = "done")
            => /\ calls[i].orig.kind # "none"
               /\ calls[i].seen = calls[i].orig

\* C34: a fetch call that settles when the wrapper it was made through is
\* no longer global.fetch (restoreFetchLogger ran meanwhile, with or without
\* a later install) hands its caller the outcome of the original call and
\* records exactly one Network event.
C34_InFlightAcrossRestore ==
    [][\A i \in 1..Len(calls) :
          (/\ calls[i].stage = "pending" /\ calls'[i].stage = "done"
           /\ calls[i].installed /\ calls[i].ref # globalFetch)
              => /\ calls'[i].seen = calls'[i].orig
                 /\ Len(calls'[i].logged) = 1]_vars

\* C36: whatever the request body and the response are, the interceptor logs
\* the call's event; a string request body that is not JSON is logged as that
\* string and a response text that is not JSON as that text; the caller can
\* still read the response.
C36_UnparseableBodyLoggedRaw ==
    lastOp \in {"fetchBodies", "xhrBodies"}
        => /\ loggedBodies.logged
           /\ (exchange.body.type = "string" /\ JSONparse(exchange.body.chars) = Absent)
                => loggedBodies.requestBody = exchange.body
           /\ JSONparse(exchange.responseText) = Absent
                => loggedBodies.responseBody = StringBody(exchange.responseText)
           /\ loggedBodies.readable = <<exchange.responseText>>

====
